---- MODULE Spec2Model ----
(***************************************************************************)
(* Model of scripts/update.py and scripts/update_datasets.py: the Orphadata *)
(* extractors (parse_definitions, parse_phenotypes, parse_prevalence,       *)
(* parse_omim), the record merger (save_combined_csv / _tsv / _excel) and   *)
(* the sequential run of main().                                            *)
(*                                                                          *)
(* Encoding.  Python str is a TLA+ string (TLC treats strings as sequences  *)
(* of one-character strings).  A value that may be None (the result of      *)
(* findtext / find) is a sequence of length at most one: <<>> is None and   *)
(* <<v>> is the value v.  A dict is a function whose DOMAIN is its key set. *)
(* An XML document is Malformed or the sequence of its Disorder elements in *)
(* document order, which is what root.findall(".//Disorder") returns.       *)
(***************************************************************************)
EXTENDS Integers, Sequences, FiniteSets, TLC

\* ------------------------------------------------------------------ values

None == <<>>

Some(v) == <<v>>

\* Python truthiness of an optional str: None and "" are falsy.
Truthy(t) == t # None /\ t[1] # ""

\* The idiom `findtext(...) or ""`.
OrEmpty(t) == IF Truthy(t) THEN t[1] ELSE ""

\* The characters str.strip() removes (the ones the inputs below use).
Whitespace == {" ", "\t", "\n"}

Digits == {"0", "1", "2", "3", "4", "5", "6", "7", "8", "9"}

RECURSIVE LStrip(_)
LStrip(s) ==
    IF s # "" /\ Head(s) \in Whitespace THEN LStrip(Tail(s)) ELSE s

RECURSIVE RStrip(_)
RStrip(s) ==
    IF s # "" /\ SubSeq(s, Len(s), Len(s)) \in Whitespace
    THEN RStrip(SubSeq(s, 1, Len(s) - 1))
    ELSE s

\* str.strip()
Strip(s) == RStrip(LStrip(s))

\* sep.join(parts)
RECURSIVE Join(_, _)
Join(sep, parts) ==
    IF parts = <<>> THEN ""
    ELSE IF Len(parts) = 1 THEN parts[1]
    ELSE parts[1] \o sep \o Join(sep, Tail(parts))

\* dict.setdefault(k, v): the first value of a key stays.
Mutant_Put(d, k, v) ==
    [x \in DOMAIN d \cup {k} |-> IF x \in DOMAIN d THEN d[x] ELSE v]

\* dict: d[k] = v
Put(d, k, v) == [x \in DOMAIN d \cup {k} |-> IF x = k THEN v ELSE d[x]]

\* defaultdict(list): d[k].append(v)
Append1(d, k, v) ==
    Put(d, k, IF k \in DOMAIN d THEN Append(d[k], v) ELSE <<v>>)

EmptyDict == [x \in {} |-> ""]

\* Every coded disorder taken, in the CodeSet or not.
Mutant_InCodes(code, codes) == code # None

\* `code in orphacodes`, for the optional text of <OrphaCode>
InCodes(code, codes) == code # None /\ code[1] \in codes

\* The elements of a list element that may be missing: findall over a
\* missing parent yields nothing.
Items(optlist) == IF optlist = None THEN <<>> ELSE optlist[1]

\* ------------------------------------------------------- parse_definitions

\* for text_section in summary_info.findall("TextSectionList/TextSection")
RECURSIVE ScanTextSections(_, _, _)
ScanTextSections(sections, i, definition) ==
    IF i > Len(sections) THEN definition
    ELSE LET text_section == sections[i]
             section_type == text_section.Name
             contents == text_section.Contents
         IN  IF section_type # None /\ section_type[1] = "Definition" /\ Truthy(contents)
             THEN Strip(contents[1])
             ELSE ScanTextSections(sections, i + 1, definition)

\* for summary_info in disorder.findall("SummaryInformationList/SummaryInformation")
RECURSIVE ScanSummaryInformation(_, _, _)
ScanSummaryInformation(infos, j, definition) ==
    IF j > Len(infos) THEN definition
    ELSE LET d == IF infos[j].lang = "en"
                  THEN ScanTextSections(infos[j].TextSectionList, 1, definition)
                  ELSE definition
         IN  IF d # "" THEN d ELSE ScanSummaryInformation(infos, j + 1, d)

\* The definition computed for one Disorder element.
DisorderDefinition(disorder) ==
    ScanSummaryInformation(Items(disorder.SummaryInformationList), 1, "")

RECURSIVE DefinitionsLoop(_, _, _, _)
DefinitionsLoop(doc, n, codes, data) ==
    IF n > Len(doc) THEN data
    ELSE LET disorder == doc[n]
             code == disorder.OrphaCode
         IN  IF InCodes(code, codes)
             THEN DefinitionsLoop(doc, n + 1, codes,
                                  Put(data, code[1], DisorderDefinition(disorder)))
             ELSE DefinitionsLoop(doc, n + 1, codes, data)

\* `if definition: data[code] = definition`: no key for an empty definition.
Mutant_parse_definitions(doc, codes) ==
    LET data == DefinitionsLoop(doc, 1, codes, EmptyDict)
    IN  [c \in {k \in DOMAIN data : data[k] # ""} |-> data[c]]

parse_definitions(doc, codes) == DefinitionsLoop(doc, 1, codes, EmptyDict)

\* -------------------------------------------------------- parse_phenotypes

target_freq == "Very frequent (99-80%)"

\* The HPO id not tested.
Mutant_KeepAssoc(assoc, freq) ==
    assoc.HPOFrequency = Some(freq) /\ OrEmpty(assoc.HPOTerm) # ""

\* The two tests an association passes to be kept.
KeepAssoc(assoc, freq) ==
    /\ assoc.HPOFrequency = Some(freq)
    /\ OrEmpty(assoc.HPOTerm) # "" /\ OrEmpty(assoc.HPOId) # ""

\* f"{hpo_term} ({hpo_id})"
PhenotypeStr(assoc) ==
    OrEmpty(assoc.HPOTerm) \o " (" \o OrEmpty(assoc.HPOId) \o ")"

RECURSIVE AssocLoop(_, _, _, _, _)
AssocLoop(assocs, i, code, freq, phenos) ==
    IF i > Len(assocs) THEN phenos
    ELSE IF KeepAssoc(assocs[i], freq)
         THEN AssocLoop(assocs, i + 1, code, freq,
                        Append1(phenos, code, PhenotypeStr(assocs[i])))
         ELSE AssocLoop(assocs, i + 1, code, freq, phenos)

RECURSIVE PhenotypesLoop(_, _, _, _, _)
PhenotypesLoop(doc, n, codes, freq, phenos) ==
    IF n > Len(doc) THEN phenos
    ELSE LET disorder == doc[n]
             code == disorder.OrphaCode
             assoc_list == disorder.HPODisorderAssociationList
         IN  IF ~InCodes(code, codes) \/ assoc_list = None
             THEN PhenotypesLoop(doc, n + 1, codes, freq, phenos)
             ELSE PhenotypesLoop(doc, n + 1, codes, freq,
                                 AssocLoop(assoc_list[1], 1, code[1], freq, phenos))

parse_phenotypes(doc, codes) == PhenotypesLoop(doc, 1, codes, target_freq, EmptyDict)

\* -------------------------------------------------------- parse_prevalence

PMID_TOKEN == "[PMID]"

\* The end (exclusive) of the run of digits of s that starts at i.
RECURSIVE DigitsEnd(_, _)
DigitsEnd(s, i) ==
    IF i <= Len(s) /\ SubSeq(s, i, i) \in Digits THEN DigitsEnd(s, i + 1) ELSE i

\* pattern.search in place of findall: the first match only.
RECURSIVE Mutant_FindAllPmid(_, _)
Mutant_FindAllPmid(s, i) ==
    IF i > Len(s) THEN <<>>
    ELSE LET j == DigitsEnd(s, i)
         IN  IF j > i /\ j + Len(PMID_TOKEN) - 1 <= Len(s)
                      /\ SubSeq(s, j, j + Len(PMID_TOKEN) - 1) = PMID_TOKEN
             THEN <<SubSeq(s, i, j - 1)>>
             ELSE Mutant_FindAllPmid(s, i + 1)

\* re.compile(r'(\d+)\[PMID\]').findall(s), scanning from position i: the
\* leftmost match, \d+ greedy, then on from the end of the match.
RECURSIVE FindAllPmid(_, _)
FindAllPmid(s, i) ==
    IF i > Len(s) THEN <<>>
    ELSE LET j == DigitsEnd(s, i)
         IN  IF j > i /\ j + Len(PMID_TOKEN) - 1 <= Len(s)
                      /\ SubSeq(s, j, j + Len(PMID_TOKEN) - 1) = PMID_TOKEN
             THEN <<SubSeq(s, i, j - 1)>> \o FindAllPmid(s, j + Len(PMID_TOKEN))
             ELSE FindAllPmid(s, i + 1)

\* The descriptor built for one Prevalence element.
PrevalenceStr(prev) ==
    LET val == OrEmpty(prev.ValMoy)
        class_ == OrEmpty(prev.PrevalenceClass)
        source_text == OrEmpty(prev.Source)
        pmids == FindAllPmid(source_text, 1)
        s1 == IF class_ # "" THEN val \o " (" \o class_ \o ")" ELSE val
    IN  IF pmids # <<>> THEN s1 \o " (PMID:" \o Join(",", pmids) \o ")" ELSE s1

RECURSIVE PrevLoop(_, _, _, _)
PrevLoop(prevList, i, code, prev_data) ==
    IF i > Len(prevList) THEN prev_data
    ELSE PrevLoop(prevList, i + 1, code,
                  Append1(prev_data, code, PrevalenceStr(prevList[i])))

RECURSIVE PrevalenceLoop(_, _, _, _)
PrevalenceLoop(doc, n, codes, prev_data) ==
    IF n > Len(doc) THEN prev_data
    ELSE LET disorder == doc[n]
             code == disorder.OrphaCode
             prev_list == disorder.PrevalenceList
         IN  IF ~InCodes(code, codes) \/ prev_list = None
             THEN PrevalenceLoop(doc, n + 1, codes, prev_data)
             ELSE PrevalenceLoop(doc, n + 1, codes,
                                 PrevLoop(prev_list[1], 1, code[1], prev_data))

parse_prevalence(doc, codes) == PrevalenceLoop(doc, 1, codes, EmptyDict)

\* -------------------------------------------------------------- parse_omim

\* The source not tested.
Mutant_KeepExtRef(ext_ref) == Truthy(ext_ref.Reference)

\* if source == "OMIM" and ref
KeepExtRef(ext_ref) == ext_ref.Source = Some("OMIM") /\ Truthy(ext_ref.Reference)

RECURSIVE ExtRefLoop(_, _, _, _)
ExtRefLoop(refs, i, code, omim_map) ==
    IF i > Len(refs) THEN omim_map
    ELSE IF KeepExtRef(refs[i])
         THEN ExtRefLoop(refs, i + 1, code,
                         Append1(omim_map, code, refs[i].Reference[1]))
         ELSE ExtRefLoop(refs, i + 1, code, omim_map)

RECURSIVE OmimLoop(_, _, _, _)
OmimLoop(doc, n, codes, omim_map) ==
    IF n > Len(doc) THEN omim_map
    ELSE LET disorder == doc[n]
             code == disorder.OrphaCode
             ext_refs == disorder.ExternalReferenceList
         IN  IF ~InCodes(code, codes) \/ ext_refs = None
             THEN OmimLoop(doc, n + 1, codes, omim_map)
             ELSE OmimLoop(doc, n + 1, codes,
                           ExtRefLoop(ext_refs[1], 1, code[1], omim_map))

parse_omim(doc, codes) == OmimLoop(doc, 1, codes, EmptyDict)

\* ------------------------------------------------------------------- merge

\* d[key] on a defaultdict: a lookup of an absent key inserts it.
Mutant_Get(d, k, default) ==
    [value |-> IF k \in DOMAIN d THEN d[k] ELSE default,
     dict |-> IF k \in DOMAIN d THEN d ELSE Put(d, k, default)]

\* dict.get(key, default): the value looked up and the dict afterwards
\* (get never inserts the key, also on a defaultdict).
Get(d, k, default) ==
    [value |-> IF k \in DOMAIN d THEN d[k] ELSE default, dict |-> d]

\* The body of `for code in orphacodes:` in save_combined_csv / _tsv / _excel:
\* the record appended for the i-th code and the four dicts afterwards.
RECURSIVE CombineLoop(_, _, _)
CombineLoop(order, i, st) ==
    IF i > Len(order) THEN st
    ELSE LET code == order[i]
             d == Get(st.defs, code, "")
             p == Get(st.phenos, code, <<>>)
             v == Get(st.prevs, code, <<>>)
             o == Get(st.omims, code, <<>>)
             row == [OrphaCode |-> code,
                     Definition |-> d.value,
                     Phenotypes |-> Join("; ", p.value),
                     Prevalence |-> Join("; ", v.value),
                     OMIM |-> Join("; ", o.value)]
         IN  CombineLoop(order, i + 1,
                         [rows |-> Append(st.rows, row), defs |-> d.dict,
                          phenos |-> p.dict, prevs |-> v.dict, omims |-> o.dict])

\* `for code in defs`: a record for each code that has a definition.
Mutant_Combine(d, p, v, o, order) ==
    CombineLoop(SelectSeq(order, LAMBDA c : c \in DOMAIN d), 1,
                [rows |-> <<>>, defs |-> d, phenos |-> p, prevs |-> v, omims |-> o])

Combine(d, p, v, o, order) ==
    CombineLoop(order, 1, [rows |-> <<>>, defs |-> d, phenos |-> p,
                           prevs |-> v, omims |-> o])

\* -------------------------------------------------------------------- main

Scripts == {"update", "update_datasets"}

Step(op, arg) == [op |-> op, arg |-> arg]

\* The calls main() makes; arg is the file a call reads or writes.
\* for name, url in ORPHADATA_FILES.items()
DownloadSteps(s) ==
    IF s = "update_datasets"
    THEN << Step("download", "definitions"),
            Step("download", "phenotypes"),
            Step("download", "prevalence") >>
    ELSE << Step("download", "definitions"),
            Step("download", "phenotypes"),
            Step("download", "prevalence"),
            Step("download", "omim") >>

ParseSteps(s) ==
    IF s = "update_datasets"
    THEN << Step("parse_definitions", "definitions"),
            Step("parse_omim", "definitions"),
            Step("parse_phenotypes", "phenotypes"),
            Step("parse_prevalence", "prevalence") >>
    ELSE << Step("parse_definitions", "definitions"),
            Step("parse_phenotypes", "phenotypes"),
            Step("parse_prevalence", "prevalence"),
            Step("parse_omim", "omim") >>

HgncSteps == << Step("download_hgnc", ""), Step("filter_hgnc", "") >>

SaveCombinedSteps(s) ==
    IF s = "update_datasets"
    THEN << Step("save_combined_csv", "csv") >>
    ELSE << Step("save_combined_tsv", "tsv"),
            Step("save_combined_excel", "xlsx") >>

LinkSteps(s) ==
    IF s = "update_datasets"
    THEN << Step("clean_latest_dir", ""),
            Step("update_symlink", "csv"),
            Step("update_symlink", "hgnc") >>
    ELSE << Step("update_symlink", "tsv"),
            Step("update_symlink", "xlsx"),
            Step("update_symlink", "hgnc") >>

\* main() with the combined snapshot saved before the HGNC table is fetched.
Mutant_MainSteps(s) ==
    << Step("load_orphacodes", "") >> \o DownloadSteps(s) \o ParseSteps(s)
       \o << Step("today", "") >> \o SaveCombinedSteps(s) \o HgncSteps
       \o << Step("save_hgnc", "hgnc") >> \o LinkSteps(s)
       \o << Step("write_version_file", "") >>

\* The calls of main() in order.
MainSteps(s) ==
    << Step("load_orphacodes", "") >> \o DownloadSteps(s) \o ParseSteps(s)
       \o HgncSteps \o << Step("today", "") >> \o SaveCombinedSteps(s)
       \o << Step("save_hgnc", "hgnc") >> \o LinkSteps(s)
       \o << Step("write_version_file", "") >>

\* The processed file main() names for an output kind on a date.
OutputName(s, kind, date) ==
    IF kind = "hgnc"
    THEN "hgnc_filtered_" \o date \o (IF s = "update_datasets" THEN ".csv" ELSE ".tsv")
    ELSE "orphadata_filtered_" \o date \o "." \o kind

\* The output kinds a run of the script writes and links.
OutputKinds(s) ==
    IF s = "update_datasets" THEN {"csv", "hgnc"} ELSE {"tsv", "xlsx", "hgnc"}

\* A file ET.parse rejects, and a file it accepts with the given disorders.
Malformed == [ok |-> FALSE, disorders |-> <<>>]

Xml(disorders) == [ok |-> TRUE, disorders |-> disorders]

VARIABLES
    script,         \* which of the two scripts runs
    pc,             \* index in MainSteps(script) of the next call of main()
    error,          \* "" or the exception that ended the run
    orphacodes,     \* the CodeSet, as the sequence its iteration yields
    tmpdir,         \* dict: downloaded file name -> file
    defs, phenos, prevs, omims,   \* the four maps
    hgnc,           \* the HGNC table downloaded, then filtered
    today,          \* the date stamp
    processed,      \* data/processed: file name -> content
    latest,         \* data/latest: link name -> the processed file it points to
    version,        \* version.txt: None or its text
    disk0           \* the disk as the run found it

vars == <<script, pc, error, orphacodes, tmpdir, defs, phenos, prevs, omims,
          hgnc, today, processed, latest, version, disk0>>

maps == <<defs, phenos, prevs, omims>>

disk == <<processed, latest, version>>

Running == error = "" /\ pc <= Len(MainSteps(script))

At(op) == Running /\ MainSteps(script)[pc].op = op

Arg == MainSteps(script)[pc].arg

Advance == pc' = pc + 1 /\ UNCHANGED <<script, error, disk0>>

Raise(e) == error' = e /\ UNCHANGED <<script, pc, disk0>>

CodeSetOf(order) == {order[i] : i \in DOMAIN order}
\* ------------------------------------------------------------------ inputs

MaxDisorders == 2

MaxEntries == 2

MaxBlocks == 2

MaxSections == 2

SeqsUpTo(S, n) == UNION {[1..k -> S] : k \in 0..n}

AllCodes == {"166024", "1606"}

\* The iteration orders a CodeSet over AllCodes can have.
CodeOrders ==
    {o \in SeqsUpTo(AllCodes, Cardinality(AllCodes)) :
        \A i, j \in DOMAIN o : i # j => o[i] # o[j]}

\* One iteration order for each CodeSet (the extractors only test membership).
CodeSetOrders == {<<>>, <<"166024">>, <<"1606">>, <<"166024", "1606">>}

OrphaCodeTexts == {None} \cup {Some(c) : c \in AllCodes}

Fields == {"SummaryInformationList", "HPODisorderAssociationList",
           "PrevalenceList", "ExternalReferenceList"}

\* A <Disorder> whose only child list, if any, is `field`.
Disorder(code, field, optlist) ==
    [f \in Fields \cup {"OrphaCode"} |->
        IF f = "OrphaCode" THEN code ELSE IF f = field THEN optlist ELSE None]

TextSection(name, contents) == [Name |-> name, Contents |-> contents]

SummaryInformation(lang, sections) == [lang |-> lang, TextSectionList |-> sections]

Assoc(freq, term, id) == [HPOFrequency |-> freq, HPOTerm |-> term, HPOId |-> id]

Prevalence(val, class, source) ==
    [ValMoy |-> val, PrevalenceClass |-> class, Source |-> source]

ExternalReference(source, ref) == [Source |-> source, Reference |-> ref]

\* Entries of each list: a rich set, tried one at a time, and a few of them,
\* tried in lists and across disorders.
RichEntries(field) ==
    CASE field = "SummaryInformationList" ->
           {SummaryInformation(l, <<TextSection(n, c)>>) :
              l \in {"en", "fr", ""},
              n \in {None, Some("Definition"), Some("Clinical description")},
              c \in {None, Some(""), Some(" \n"), Some(" A rare disorder.\n")}}
      [] field = "HPODisorderAssociationList" ->
           {Assoc(f, t, i) :
              f \in {None, Some(target_freq), Some("Frequent (79-30%)"),
                     Some("Very frequent (99-80%) ")},
              t \in {None, Some(""), Some("Seizure")},
              i \in {None, Some(""), Some("HP:0001250")}}
      [] field = "PrevalenceList" ->
           {Prevalence(v, c, s) :
              v \in {None, Some("1.0")},
              c \in {None, Some(""), Some("<1 / 1 000 000")},
              s \in {None, Some(""), Some("12345678[PMID], 87654321[PMID]"),
                     Some("7[PMID]"), Some("EXPERT"), Some("[PMID]"),
                     Some("12 [PMID]"), Some("12[PMID"), Some("a12[PMID]3[PMID]"),
                     Some("1[PMID][PMID]23")}}
      [] field = "ExternalReferenceList" ->
           {ExternalReference(s, r) :
              s \in {None, Some("OMIM"), Some("ICD-10"), Some("omim")},
              r \in {None, Some(""), Some("607596")}}

FewEntries(field) ==
    CASE field = "SummaryInformationList" ->
           {SummaryInformation("en", <<TextSection(Some("Definition"), Some("A rare disorder."))>>),
            SummaryInformation("en", <<TextSection(Some("Definition"), Some(" Another text.\n"))>>),
            SummaryInformation("en", <<TextSection(Some("Clinical description"), Some("Signs."))>>)}
      [] field = "HPODisorderAssociationList" ->
           {Assoc(Some(target_freq), Some("Seizure"), Some("HP:0001250")),
            Assoc(Some(target_freq), Some("Ataxia"), Some("HP:0001251")),
            Assoc(Some(target_freq), Some("Seizure"), Some("")),
            Assoc(Some("Frequent (79-30%)"), Some("Ataxia"), Some("HP:0001251"))}
      [] field = "PrevalenceList" ->
           {Prevalence(Some("1.0"), Some("<1 / 1 000 000"), Some("7[PMID]")),
            Prevalence(Some("2.5"), None, Some("EXPERT")),
            Prevalence(None, None, None)}
      [] field = "ExternalReferenceList" ->
           {ExternalReference(Some("OMIM"), Some("607596")),
            ExternalReference(Some("OMIM"), Some("300100")),
            ExternalReference(Some("ICD-10"), Some("Q93.5")),
            ExternalReference(Some("OMIM"), None)}

\* Two of the few, for the documents of several disorders.
WideEntries(field) ==
    CASE field = "SummaryInformationList" ->
           <<SummaryInformation("en", <<TextSection(Some("Definition"), Some("A rare disorder."))>>),
             SummaryInformation("en", <<TextSection(Some("Definition"), Some(" Another text.\n"))>>)>>
      [] field = "HPODisorderAssociationList" ->
           <<Assoc(Some(target_freq), Some("Seizure"), Some("HP:0001250")),
             Assoc(Some(target_freq), Some("Ataxia"), Some("HP:0001251"))>>
      [] field = "PrevalenceList" ->
           <<Prevalence(Some("1.0"), Some("<1 / 1 000 000"), Some("7[PMID]")),
             Prevalence(Some("2.5"), None, Some("EXPERT"))>>
      [] field = "ExternalReferenceList" ->
           <<ExternalReference(Some("OMIM"), Some("607596")),
             ExternalReference(Some("ICD-10"), Some("Q93.5"))>>

\* The disorders such a document is made of: one code with no list or either
\* entry, another code with no list or the first entry, and an uncoded
\* disorder with the first entry.
WideDisorders(field) ==
    {Disorder(Some("166024"), field, l) :
        l \in {None, Some(<<WideEntries(field)[1]>>), Some(<<WideEntries(field)[2]>>)}}
    \cup {Disorder(Some("1606"), field, l) :
            l \in {None, Some(<<WideEntries(field)[1]>>)}}
    \cup {Disorder(None, field, Some(<<WideEntries(field)[1]>>))}

\* The documents of a feed the extractors are tried on: one disorder with one
\* entry of the rich set; one disorder with a list of a few entries; several
\* disorders of WideDisorders.
FeedDocs(field) ==
    LET one == {<<Disorder(Some("166024"), field, Some(<<e>>))>> :
                  e \in RichEntries(field)}
        deep == {<<Disorder(Some("166024"), field, Some(l))>> :
                  l \in SeqsUpTo(FewEntries(field), MaxEntries)}
        wide == SeqsUpTo(WideDisorders(field), MaxDisorders)
    IN  {Malformed} \cup {Xml(d) : d \in one \cup deep \cup wide}

\* The summaries parse_definitions is tried on: every list of blocks, each
\* with every list of sections, within the bounds.
ScanSections ==
    {TextSection(n, c) :
        n \in {Some("Definition"), Some("Clinical description")},
        c \in {None, Some(" \n"), Some(" A rare disorder.\n"), Some("Another text.")}}

ScanBlocks ==
    {SummaryInformation(l, secs) :
        l \in {"en", "fr"}, secs \in SeqsUpTo(ScanSections, MaxSections)}

ScanDocs ==
    {Malformed} \cup
    {Xml(<<Disorder(Some("166024"), "SummaryInformationList", Some(b))>>) :
        b \in SeqsUpTo(ScanBlocks, MaxBlocks)}

\* The maps the merge is tried on: a dict over no code, one code or both,
\* each list the first k of the given values.
ListDicts(values) ==
    {EmptyDict} \cup
    {[c \in S |-> SubSeq(values, 1, IF c = "166024" THEN k ELSE 1)] :
        S \in {{"166024"}, AllCodes}, k \in 0..MaxEntries}

TextDicts(values) == UNION {[S -> values] : S \in SUBSET AllCodes}

\* The file a feed is read from, and the list of a Disorder it reads.
FeedFile(s, field) ==
    CASE field = "SummaryInformationList" -> "definitions"
      [] field = "HPODisorderAssociationList" -> "phenotypes"
      [] field = "PrevalenceList" -> "prevalence"
      [] field = "ExternalReferenceList" ->
           IF s = "update_datasets" THEN "definitions" ELSE "omim"

FileNames(s) ==
    IF s = "update_datasets" THEN {"definitions", "phenotypes", "prevalence"}
    ELSE {"definitions", "phenotypes", "prevalence", "omim"}

\* A document of the kind the servers publish, with every list filled.
SampleDisorder ==
    [OrphaCode |-> Some("166024"),
     SummaryInformationList |->
        Some(<<SummaryInformation("en", <<TextSection(Some("Definition"),
                                                      Some("A rare disorder."))>>)>>),
     HPODisorderAssociationList |->
        Some(<<Assoc(Some(target_freq), Some("Seizure"), Some("HP:0001250"))>>),
     PrevalenceList |->
        Some(<<Prevalence(Some("1.0"), Some("<1 / 1 000 000"), Some("7[PMID]"))>>),
     ExternalReferenceList |->
        Some(<<ExternalReference(Some("OMIM"), Some("607596")),
               ExternalReference(Some("ICD-10"), Some("Q93.5"))>>)]

SampleDoc == Xml(<<SampleDisorder>>)

\* What a download of an Orphadata file can bring.
Served == {SampleDoc, Xml(<<>>), Malformed}

Dates == {"2024-01-01", "2024-01-02"}

columns_of_interest == <<"symbol", "name", "entrez_id", "ensembl_gene_id", "uniprot_ids">>

\* What a download of the HGNC table can bring: its column names.
HgncTables == {columns_of_interest \o <<"status">>, <<"symbol", "name">>}

Range(f) == {f[i] : i \in DOMAIN f}

\* The disk a run finds: nothing yet, or what a run of the same script on the
\* first date left.
PriorDisks(s) ==
    LET d == "2024-01-01"
        files == [n \in {OutputName(s, k, d) : k \in OutputKinds(s)} |->
                     IF n = OutputName(s, "hgnc", d) THEN columns_of_interest ELSE <<>>]
    IN  {[processed |-> EmptyDict, latest |-> EmptyDict, version |-> None],
         [processed |-> files, latest |-> [n \in DOMAIN files |-> n],
          version |-> Some("v_" \o d)]}

\* ----------------------------------------------------------------- actions

\* ensure_dirs() makes directories only; load_orphacodes() yields the CodeSet.
LoadOrphacodes ==
    /\ At("load_orphacodes")
    /\ \E o \in CodeOrders : orphacodes' = o
    /\ Advance
    /\ UNCHANGED <<tmpdir, maps, hgnc, today, disk>>

\* requests.get(url); r.raise_for_status(); the file is written to tmpdir.
Download ==
    /\ At("download")
    /\ \E d \in Served : tmpdir' = Put(tmpdir, Arg, d)
    /\ Advance
    /\ UNCHANGED <<orphacodes, maps, hgnc, today, disk>>

DownloadFail ==
    /\ At("download")
    /\ Raise("HTTPError")
    /\ UNCHANGED <<orphacodes, tmpdir, maps, hgnc, today, disk>>

\* ET.parse(path) raises on a file that is not well-formed XML.
ParseError ==
    /\ \/ At("parse_definitions")
       \/ At("parse_phenotypes")
       \/ At("parse_prevalence")
       \/ At("parse_omim")
    /\ ~tmpdir[Arg].ok
    /\ Raise("ParseError")
    /\ UNCHANGED <<orphacodes, tmpdir, maps, hgnc, today, disk>>

ParseDefinitions ==
    /\ At("parse_definitions")
    /\ tmpdir[Arg].ok
    /\ defs' = parse_definitions(tmpdir[Arg].disorders, CodeSetOf(orphacodes))
    /\ Advance
    /\ UNCHANGED <<orphacodes, tmpdir, phenos, prevs, omims, hgnc, today, disk>>

ParsePhenotypes ==
    /\ At("parse_phenotypes")
    /\ tmpdir[Arg].ok
    /\ phenos' = parse_phenotypes(tmpdir[Arg].disorders, CodeSetOf(orphacodes))
    /\ Advance
    /\ UNCHANGED <<orphacodes, tmpdir, defs, prevs, omims, hgnc, today, disk>>

ParsePrevalence ==
    /\ At("parse_prevalence")
    /\ tmpdir[Arg].ok
    /\ prevs' = parse_prevalence(tmpdir[Arg].disorders, CodeSetOf(orphacodes))
    /\ Advance
    /\ UNCHANGED <<orphacodes, tmpdir, defs, phenos, omims, hgnc, today, disk>>

ParseOmim ==
    /\ At("parse_omim")
    /\ tmpdir[Arg].ok
    /\ omims' = parse_omim(tmpdir[Arg].disorders, CodeSetOf(orphacodes))
    /\ Advance
    /\ UNCHANGED <<orphacodes, tmpdir, defs, phenos, prevs, hgnc, today, disk>>

DownloadHgnc ==
    /\ At("download_hgnc")
    /\ \E t \in HgncTables : hgnc' = t
    /\ Advance
    /\ UNCHANGED <<orphacodes, tmpdir, maps, today, disk>>

DownloadHgncFail ==
    /\ At("download_hgnc")
    /\ Raise("HTTPError")
    /\ UNCHANGED <<orphacodes, tmpdir, maps, hgnc, today, disk>>

\* df[columns_of_interest] raises KeyError when a column is not in the table.
FilterHgnc ==
    /\ At("filter_hgnc")
    /\ IF Range(columns_of_interest) \subseteq Range(hgnc)
       THEN hgnc' = columns_of_interest /\ Advance
       ELSE Raise("KeyError") /\ UNCHANGED hgnc
    /\ UNCHANGED <<orphacodes, tmpdir, maps, today, disk>>

\* The with-block ends (tmpdir is removed); today = now().strftime("%Y-%m-%d").
Today ==
    /\ At("today")
    /\ \E d \in Dates : today' = d
    /\ tmpdir' = EmptyDict
    /\ Advance
    /\ UNCHANGED <<orphacodes, maps, hgnc, disk>>

\* save_combined_csv / save_combined_tsv / save_combined_excel: the merge,
\* then the rows written to the output file.
SaveCombined(op) ==
    /\ At(op)
    /\ LET r == Combine(defs, phenos, prevs, omims, orphacodes)
       IN  /\ processed' = Put(processed, OutputName(script, Arg, today), r.rows)
           /\ defs' = r.defs
           /\ phenos' = r.phenos
           /\ prevs' = r.prevs
           /\ omims' = r.omims
    /\ Advance
    /\ UNCHANGED <<orphacodes, tmpdir, hgnc, today, latest, version>>

SaveCombinedCsv == SaveCombined("save_combined_csv")

SaveCombinedTsv == SaveCombined("save_combined_tsv")

SaveCombinedExcel == SaveCombined("save_combined_excel")

SaveHgnc ==
    /\ At("save_hgnc")
    /\ processed' = Put(processed, OutputName(script, Arg, today), hgnc)
    /\ Advance
    /\ UNCHANGED <<orphacodes, tmpdir, maps, hgnc, today, latest, version>>

CleanLatestDir ==
    /\ At("clean_latest_dir")
    /\ latest' = EmptyDict
    /\ Advance
    /\ UNCHANGED <<orphacodes, tmpdir, maps, hgnc, today, processed, version>>

\* The link named as the file replaces a link of that name.
UpdateSymlink ==
    /\ At("update_symlink")
    /\ LET name == OutputName(script, Arg, today)
       IN  latest' = Put(latest, name, name)
    /\ Advance
    /\ UNCHANGED <<orphacodes, tmpdir, maps, hgnc, today, processed, version>>

WriteVersionFile ==
    /\ At("write_version_file")
    /\ version' = Some("v_" \o today)
    /\ Advance
    /\ UNCHANGED <<orphacodes, tmpdir, maps, hgnc, today, processed, latest>>

\* ---------------------------------------------------------- specifications

Fetch == LoadOrphacodes \/ Download \/ DownloadFail

Extract ==
    ParseDefinitions \/ ParsePhenotypes \/ ParsePrevalence \/ ParseOmim \/ ParseError

Merge == SaveCombinedCsv \/ SaveCombinedTsv \/ SaveCombinedExcel

Publish ==
    \/ DownloadHgnc \/ DownloadHgncFail \/ FilterHgnc \/ Today
    \/ SaveHgnc \/ CleanLatestDir \/ UpdateSymlink \/ WriteVersionFile

Next == Fetch \/ Extract \/ Merge \/ Publish

\* The index in main() of the first call of an operation.
StepIndex(s, op) ==
    CHOOSE i \in DOMAIN MainSteps(s) :
        /\ MainSteps(s)[i].op = op
        /\ \A j \in 1..(i - 1) : MainSteps(s)[j].op # op

\* A run of main() from its first line, on the disk an earlier run left.
Init ==
    /\ script \in Scripts
    /\ pc = 1
    /\ error = ""
    /\ orphacodes = <<>>
    /\ tmpdir = EmptyDict
    /\ defs = EmptyDict /\ phenos = EmptyDict /\ prevs = EmptyDict /\ omims = EmptyDict
    /\ hgnc = <<>>
    /\ today = ""
    /\ \E d \in PriorDisks(script) :
          /\ processed = d.processed /\ latest = d.latest /\ version = d.version
          /\ disk0 = d

Spec == Init /\ [][Next]_vars

\* main() at its first parse, every file downloaded: one feed's file is any
\* document of FeedDocs, the others are the sample.
InitExtract ==
    /\ script \in Scripts
    /\ pc = StepIndex(script, "parse_definitions")
    /\ error = ""
    /\ orphacodes \in CodeSetOrders
    /\ \E field \in Fields : \E d \in FeedDocs(field) :
          tmpdir = [n \in FileNames(script) |->
                       IF n = FeedFile(script, field) THEN d ELSE SampleDoc]
    /\ defs = EmptyDict /\ phenos = EmptyDict /\ prevs = EmptyDict /\ omims = EmptyDict
    /\ hgnc = <<>>
    /\ today = ""
    /\ processed = EmptyDict /\ latest = EmptyDict /\ version = None
    /\ disk0 = [processed |-> EmptyDict, latest |-> EmptyDict, version |-> None]

SpecExtract == InitExtract /\ [][Extract]_vars

\* As InitExtract, the definitions file being any document of ScanDocs.
InitScan ==
    /\ script \in Scripts
    /\ pc = StepIndex(script, "parse_definitions")
    /\ error = ""
    /\ orphacodes = <<"166024">>
    /\ \E d \in ScanDocs :
          tmpdir = [n \in FileNames(script) |->
                       IF n = "definitions" THEN d ELSE SampleDoc]
    /\ defs = EmptyDict /\ phenos = EmptyDict /\ prevs = EmptyDict /\ omims = EmptyDict
    /\ hgnc = <<>>
    /\ today = ""
    /\ processed = EmptyDict /\ latest = EmptyDict /\ version = None
    /\ disk0 = [processed |-> EmptyDict, latest |-> EmptyDict, version |-> None]

SpecScan == InitScan /\ [][Extract]_vars

\* main() at its first save_combined_* call, on any CodeSet and any four maps.
InitMerge ==
    /\ script \in Scripts
    /\ pc = StepIndex(script, IF script = "update_datasets"
                              THEN "save_combined_csv" ELSE "save_combined_tsv")
    /\ error = ""
    /\ orphacodes \in CodeOrders
    /\ tmpdir = EmptyDict
    /\ defs \in TextDicts({"", "A rare disorder."})
    /\ phenos \in ListDicts(<<"Seizure (HP:0001250)", "Ataxia (HP:0001251)", "Hypotonia (HP:0001252)">>)
    /\ prevs \in ListDicts(<<"1.0 (<1 / 1 000 000) (PMID:7)", "2.5", "">>)
    /\ omims \in ListDicts(<<"607596", "300100", "194050">>)
    /\ hgnc = columns_of_interest
    /\ today \in Dates
    /\ processed = EmptyDict /\ latest = EmptyDict /\ version = None
    /\ disk0 = [processed |-> EmptyDict, latest |-> EmptyDict, version |-> None]

SpecMerge == InitMerge /\ [][Merge]_vars

\* ------------------------------------------------------------- properties

CodeSet == CodeSetOf(orphacodes)

\* The call of main() named op has returned.
Parsed(op) == pc > StepIndex(script, op)

AllParsed ==
    /\ Parsed("parse_definitions") /\ Parsed("parse_phenotypes")
    /\ Parsed("parse_prevalence") /\ Parsed("parse_omim")

\* The Disorder elements of the file a feed was read from.
FeedDisorders(field) == tmpdir[FeedFile(script, field)].disorders

\* dict lookup with the merge's default for a list
Lookup(d, k) == IF k \in DOMAIN d THEN d[k] ELSE <<>>

\* The indices of the Disorder elements carrying code c, and the last of them.
IndicesOf(doc, c) == {n \in DOMAIN doc : doc[n].OrphaCode = Some(c)}

LastIndexOf(doc, c) ==
    CHOOSE n \in IndicesOf(doc, c) : \A m \in IndicesOf(doc, c) : m <= n

\* The entries of list `field` of the disorders carrying code c, in document order.
RECURSIVE EntriesFrom(_, _, _, _)
EntriesFrom(doc, n, c, field) ==
    IF n > Len(doc) THEN <<>>
    ELSE (IF doc[n].OrphaCode = Some(c) THEN Items(doc[n][field]) ELSE <<>>)
         \o EntriesFrom(doc, n + 1, c, field)

EntriesOf(doc, c, field) == EntriesFrom(doc, 1, c, field)

NonEmptyText(t) == t \notin {None, Some("")}

EndsWith(s, suffix) ==
    Len(s) >= Len(suffix) /\ SubSeq(s, Len(s) - Len(suffix) + 1, Len(s)) = suffix

\* parts joined by sep, built from the last part backwards
RECURSIVE Joined(_, _)
Joined(sep, parts) ==
    IF Len(parts) = 0 THEN ""
    ELSE IF Len(parts) = 1 THEN parts[1]
    ELSE Joined(sep, SubSeq(parts, 1, Len(parts) - 1)) \o sep \o parts[Len(parts)]

\* The documents with the disorders outside the CodeSet taken out.
InSet(disorder) == disorder.OrphaCode # None /\ disorder.OrphaCode[1] \in CodeSet

InSetOnly(doc) == SelectSeq(doc, InSet)

\* C1: the merge writes exactly |CodeSet| records, one per code in the
\* iteration order of the CodeSet; each field is "" when the code is absent
\* from its map, otherwise the definition or the map's list joined by "; ".
C1_MergeOneRecordPerCode ==
    \A k \in OutputKinds(script) \ {"hgnc"} :
        OutputName(script, k, today) \in DOMAIN processed =>
            LET rows == processed[OutputName(script, k, today)]
            IN  /\ Len(rows) = Cardinality(CodeSet)
                /\ Len(rows) = Len(orphacodes)
                /\ \A i \in DOMAIN rows :
                     LET c == orphacodes[i]
                     IN  /\ rows[i].OrphaCode = c
                         /\ rows[i].Definition =
                              (IF c \in DOMAIN defs THEN defs[c] ELSE "")
                         /\ rows[i].Phenotypes =
                              (IF c \in DOMAIN phenos THEN Joined("; ", phenos[c]) ELSE "")
                         /\ rows[i].Prevalence =
                              (IF c \in DOMAIN prevs THEN Joined("; ", prevs[c]) ELSE "")
                         /\ rows[i].OMIM =
                              (IF c \in DOMAIN omims THEN Joined("; ", omims[c]) ELSE "")

\* The end-to-end example: code absent from the definition and prevalence
\* maps, one phenotype, one OMIM reference, and the record written for it.
C1_Witness ==
    /\ orphacodes = <<"166024">>
    /\ defs = EmptyDict /\ prevs = EmptyDict
    /\ phenos = [c \in {"166024"} |-> <<"Seizure (HP:0001250)">>]
    /\ omims = [c \in {"166024"} |-> <<"607596">>]
    /\ \E n \in DOMAIN processed :
          processed[n] = <<[OrphaCode |-> "166024", Definition |-> "",
                            Phenotypes |-> "Seizure (HP:0001250)",
                            Prevalence |-> "", OMIM |-> "607596"]>>

\* C2: every key of the four maps is a member of the CodeSet, and the maps
\* are the ones the in-set disorders alone would give: a Disorder whose
\* OrphaCode is outside the CodeSet, or that has none, contributes nothing.
C2_KeysInCodeSet ==
    /\ DOMAIN defs \subseteq CodeSet /\ DOMAIN phenos \subseteq CodeSet
    /\ DOMAIN prevs \subseteq CodeSet /\ DOMAIN omims \subseteq CodeSet
    /\ Parsed("parse_definitions") =>
         defs = parse_definitions(InSetOnly(FeedDisorders("SummaryInformationList")), CodeSet)
    /\ Parsed("parse_phenotypes") =>
         phenos = parse_phenotypes(InSetOnly(FeedDisorders("HPODisorderAssociationList")), CodeSet)
    /\ Parsed("parse_prevalence") =>
         prevs = parse_prevalence(InSetOnly(FeedDisorders("PrevalenceList")), CodeSet)
    /\ Parsed("parse_omim") =>
         omims = parse_omim(InSetOnly(FeedDisorders("ExternalReferenceList")), CodeSet)

\* A document with an in-set disorder, one outside the CodeSet that has an
\* entry, and the maps built.
C2_Witness ==
    /\ AllParsed
    /\ phenos # EmptyDict
    /\ \E d \in Range(FeedDisorders("HPODisorderAssociationList")) :
          /\ d.OrphaCode # None /\ d.OrphaCode[1] \notin CodeSet
          /\ Items(d.HPODisorderAssociationList) # <<>>

\* The first non-empty stripped Contents among the "Definition" sections of
\* the English blocks, in document order; "" when there is none.
RECURSIVE FirstDefinition(_, _, _)
FirstDefinition(infos, j, i) ==
    IF j > Len(infos) THEN ""
    ELSE IF infos[j].lang # "en" \/ i > Len(infos[j].TextSectionList)
         THEN FirstDefinition(infos, j + 1, 1)
    ELSE LET ts == infos[j].TextSectionList[i]
         IN  IF ts.Name = Some("Definition") /\ ts.Contents # None
                  /\ Strip(ts.Contents[1]) # ""
             THEN Strip(ts.Contents[1])
             ELSE FirstDefinition(infos, j, i + 1)

\* C3: parse_definitions returns, for an in-set disorder, the stripped
\* Contents of the first "Definition" section of the English blocks in
\* document order, scanning until a non-empty definition is found, and ""
\* when no section yields a non-empty text.
C3_FirstNonEmptyDefinition ==
    Parsed("parse_definitions") =>
        \A n \in DOMAIN FeedDisorders("SummaryInformationList") :
            LET d == FeedDisorders("SummaryInformationList")[n]
            IN  InSet(d) /\ n = LastIndexOf(FeedDisorders("SummaryInformationList"), d.OrphaCode[1])
                => defs[d.OrphaCode[1]] =
                       FirstDefinition(Items(d.SummaryInformationList), 1, 1)

KeptAssoc(a) ==
    /\ a.HPOFrequency = Some("Very frequent (99-80%)")
    /\ NonEmptyText(a.HPOTerm) /\ NonEmptyText(a.HPOId)

\* C4: the list parse_phenotypes stores for a code is the document-order
\* subsequence of its associations whose frequency name equals the target and
\* whose HPO term and id are both non-empty, each rendered "term (id)".
C4_PhenotypesKept ==
    Parsed("parse_phenotypes") =>
        \A c \in CodeSet :
            LET kept == SelectSeq(EntriesOf(FeedDisorders("HPODisorderAssociationList"),
                                            c, "HPODisorderAssociationList"), KeptAssoc)
            IN  Lookup(phenos, c) =
                  [i \in 1..Len(kept) |->
                      kept[i].HPOTerm[1] \o " (" \o kept[i].HPOId[1] \o ")"]

\* An in-set disorder with a kept association and one with a term but an
\* empty HPO id.
C4_Witness ==
    /\ Parsed("parse_phenotypes")
    /\ \E c \in CodeSet :
          /\ Lookup(phenos, c) = <<"Ataxia (HP:0001251)">>
          /\ \E a \in Range(EntriesOf(FeedDisorders("HPODisorderAssociationList"),
                                      c, "HPODisorderAssociationList")) :
                /\ a.HPOFrequency = Some(target_freq)
                /\ a.HPOTerm = Some("Seizure") /\ a.HPOId = Some("")

\* The positions of s where the token [PMID] starts right after a digit.
PmidAt(s) ==
    {p \in 2..Len(s) :
        /\ p + 5 <= Len(s)
        /\ SubSeq(s, p, p + 5) = "[PMID]"
        /\ SubSeq(s, p - 1, p - 1) \in Digits}

\* The run of digits of s that ends right before position p.
RunBefore(s, p) ==
    LET q == CHOOSE q \in 1..(p - 1) :
                /\ \A k \in q..(p - 1) : SubSeq(s, k, k) \in Digits
                /\ q = 1 \/ SubSeq(s, q - 1, q - 1) \notin Digits
    IN  SubSeq(s, q, p - 1)

\* The runs of digits followed by [PMID], in order of occurrence.
RECURSIVE RunsFrom(_, _)
RunsFrom(s, ps) ==
    IF ps = {} THEN <<>>
    ELSE LET p == CHOOSE p \in ps : \A r \in ps : p <= r
         IN  <<RunBefore(s, p)>> \o RunsFrom(s, ps \ {p})

ExpectedPrevalence(prev) ==
    LET val == IF prev.ValMoy = None THEN "" ELSE prev.ValMoy[1]
        class == IF prev.PrevalenceClass = None THEN "" ELSE prev.PrevalenceClass[1]
        source == IF prev.Source = None THEN "" ELSE prev.Source[1]
        ids == RunsFrom(source, PmidAt(source))
    IN  val \o (IF class = "" THEN "" ELSE " (" \o class \o ")")
            \o (IF ids = <<>> THEN "" ELSE " (PMID:" \o Joined(",", ids) \o ")")

\* C5: parse_prevalence appends one descriptor per Prevalence entry in
\* document order: the mean value, then "(class)" only for a non-empty class
\* name, then "(PMID:ids)" only when the source text has a run of digits
\* followed by [PMID], the ids being those runs in order; the source text
\* "12345678[PMID], 87654321[PMID]" gives "(PMID:12345678,87654321)".
C5_PrevalenceDescriptors ==
    Parsed("parse_prevalence") =>
        \A c \in CodeSet :
            LET entries == EntriesOf(FeedDisorders("PrevalenceList"), c, "PrevalenceList")
            IN  /\ Lookup(prevs, c) =
                     [i \in 1..Len(entries) |-> ExpectedPrevalence(entries[i])]
                /\ \A i \in DOMAIN entries :
                     entries[i].Source = Some("12345678[PMID], 87654321[PMID]") =>
                        EndsWith(prevs[c][i], "(PMID:12345678,87654321)")

C5_Witness ==
    /\ Parsed("parse_prevalence")
    /\ \E c \in CodeSet :
          Lookup(prevs, c) = <<"1.0 (<1 / 1 000 000) (PMID:12345678,87654321)">>

KeptExtRef(r) == r.Source = Some("OMIM") /\ NonEmptyText(r.Reference)

\* C6: the list parse_omim stores for a code is the document-order
\* subsequence of the Reference values of its ExternalReference entries whose
\* Source is "OMIM" and whose Reference is non-empty.
C6_OmimKept ==
    Parsed("parse_omim") =>
        \A c \in CodeSet :
            LET kept == SelectSeq(EntriesOf(FeedDisorders("ExternalReferenceList"),
                                            c, "ExternalReferenceList"), KeptExtRef)
            IN  Lookup(omims, c) = [i \in 1..Len(kept) |-> kept[i].Reference[1]]

\* An in-set disorder with an OMIM entry and an ICD-10 entry.
C6_Witness ==
    /\ Parsed("parse_omim")
    /\ \E c \in CodeSet :
          /\ Lookup(omims, c) = <<"607596">>
          /\ \E r \in Range(EntriesOf(FeedDisorders("ExternalReferenceList"),
                                      c, "ExternalReferenceList")) :
                r.Source = Some("ICD-10") /\ r.Reference = Some("Q93.5")

\* Every disorder carrying code c lacks the list, and there is one.
AllLack(field, c) ==
    /\ IndicesOf(FeedDisorders(field), c) # {}
    /\ \A n \in IndicesOf(FeedDisorders(field), c) : FeedDisorders(field)[n][field] = None

\* The record the merge builds for code c from the maps as they are.
MergedRow(c) ==
    LET rows == Combine(defs, phenos, prevs, omims, orphacodes).rows
    IN  rows[CHOOSE i \in DOMAIN rows : rows[i].OrphaCode = c]

\* C7: a disorder of the CodeSet that lacks a list makes no extractor fail
\* and contributes nothing: the definition map holds its code with "", the
\* phenotype, prevalence and OMIM maps hold no key for a code with no kept
\* entry, and the merged record has an empty field in each such case.
C7_MissingListsAreEmpty ==
    /\ error # "" => ~tmpdir[Arg].ok
    /\ \A c \in DOMAIN phenos : phenos[c] # <<>>
    /\ \A c \in DOMAIN prevs : prevs[c] # <<>>
    /\ \A c \in DOMAIN omims : omims[c] # <<>>
    /\ \A c \in CodeSet :
         /\ Parsed("parse_definitions")
              /\ IndicesOf(FeedDisorders("SummaryInformationList"), c) # {}
              /\ FeedDisorders("SummaryInformationList")[
                     LastIndexOf(FeedDisorders("SummaryInformationList"), c)
                 ].SummaryInformationList = None
            => c \in DOMAIN defs /\ defs[c] = "" /\ MergedRow(c).Definition = ""
         /\ Parsed("parse_phenotypes") /\ AllLack("HPODisorderAssociationList", c)
            => c \notin DOMAIN phenos /\ MergedRow(c).Phenotypes = ""
         /\ Parsed("parse_prevalence") /\ AllLack("PrevalenceList", c)
            => c \notin DOMAIN prevs /\ MergedRow(c).Prevalence = ""
         /\ Parsed("parse_omim") /\ AllLack("ExternalReferenceList", c)
            => c \notin DOMAIN omims /\ MergedRow(c).OMIM = ""

\* An in-set disorder without any of the four lists, every file parsed.
C7_Witness ==
    /\ AllParsed /\ error = ""
    /\ \E c \in CodeSet :
          /\ \E f \in {"SummaryInformationList", "HPODisorderAssociationList"} :
                AllLack(f, c)
          /\ c \in DOMAIN defs /\ defs[c] = ""
          /\ c \notin DOMAIN phenos

MergeOps == {"save_combined_csv", "save_combined_tsv", "save_combined_excel"}

\* C8: a merge leaves the CodeSet and the four maps as they were, the records
\* it writes are the ones a second merge of the same inputs gives, and the
\* two merges of one run (tsv, then xlsx) write identical records.
C8_MergeIdempotent ==
    [][\A op \in MergeOps : At(op) /\ pc' = pc + 1 =>
          /\ orphacodes' = orphacodes
          /\ defs' = defs /\ phenos' = phenos /\ prevs' = prevs /\ omims' = omims
          /\ processed'[OutputName(script, Arg, today)] =
                Combine(defs', phenos', prevs', omims', orphacodes').rows
          /\ op = "save_combined_excel" =>
                processed'[OutputName(script, "xlsx", today)] =
                   processed[OutputName(script, "tsv", today)]]_vars

\* Both merges of a run done, on a CodeSet with a code that a map lacks.
C8_Witness ==
    /\ script = "update"
    /\ OutputName(script, "xlsx", today) \in DOMAIN processed
    /\ processed[OutputName(script, "xlsx", today)] =
          processed[OutputName(script, "tsv", today)]
    /\ Len(orphacodes) = 2
    /\ \E c \in CodeSet : c \notin DOMAIN phenos /\ c \in DOMAIN omims

FetchOps ==
    {"load_orphacodes", "download", "parse_definitions", "parse_phenotypes",
     "parse_prevalence", "parse_omim", "download_hgnc", "filter_hgnc"}

\* A download or a parse of main() has not returned yet.
Fetching ==
    \E i \in DOMAIN MainSteps(script) : MainSteps(script)[i].op \in FetchOps /\ pc <= i

\* Every snapshot file of the run is written and linked from data/latest.
Published ==
    \A k \in OutputKinds(script) :
        /\ OutputName(script, k, today) \in DOMAIN processed
        /\ OutputName(script, k, today) \in DOMAIN latest
        /\ latest[OutputName(script, k, today)] = OutputName(script, k, today)

\* C9: until every download and every parse has returned, and so in a run a
\* failed download or an unparseable file ended, data/processed, data/latest
\* and version.txt are as the run found them; version.txt is written only
\* once every snapshot file and every latest link of the run exists.
C9_FetchBeforePublish ==
    /\ [](Fetching =>
            /\ processed = disk0.processed
            /\ latest = disk0.latest
            /\ version = disk0.version)
    /\ [][At("write_version_file") \/ version' # version => Published]_vars

\* A run an unparseable file ended, on the disk an earlier run left.
C9_Witness ==
    /\ error = "ParseError"
    /\ disk0.version # None
    /\ DOMAIN processed # {}
    /\ version = disk0.version

\* The concatenation of what an extractor gives for each disorder carrying c.
RECURSIVE ConcatPhenotypes(_, _, _)
ConcatPhenotypes(doc, n, c) ==
    IF n > Len(doc) THEN <<>>
    ELSE Lookup(parse_phenotypes(<<doc[n]>>, {c}), c) \o ConcatPhenotypes(doc, n + 1, c)

RECURSIVE ConcatPrevalence(_, _, _)
ConcatPrevalence(doc, n, c) ==
    IF n > Len(doc) THEN <<>>
    ELSE Lookup(parse_prevalence(<<doc[n]>>, {c}), c) \o ConcatPrevalence(doc, n + 1, c)

RECURSIVE ConcatOmim(_, _, _)
ConcatOmim(doc, n, c) ==
    IF n > Len(doc) THEN <<>>
    ELSE Lookup(parse_omim(<<doc[n]>>, {c}), c) \o ConcatOmim(doc, n + 1, c)

\* C10: of several Disorder elements with one in-set OrphaCode,
\* parse_definitions keeps the result of the last, the other extractors keep
\* the entries of all, concatenated in document order.
C10_DuplicateCodes ==
    \A c \in CodeSet :
        /\ Parsed("parse_definitions")
              /\ IndicesOf(FeedDisorders("SummaryInformationList"), c) # {}
            => defs[c] = DisorderDefinition(
                            FeedDisorders("SummaryInformationList")[
                               LastIndexOf(FeedDisorders("SummaryInformationList"), c)])
        /\ Parsed("parse_phenotypes") =>
              Lookup(phenos, c) =
                 ConcatPhenotypes(FeedDisorders("HPODisorderAssociationList"), 1, c)
        /\ Parsed("parse_prevalence") =>
              Lookup(prevs, c) = ConcatPrevalence(FeedDisorders("PrevalenceList"), 1, c)
        /\ Parsed("parse_omim") =>
              Lookup(omims, c) = ConcatOmim(FeedDisorders("ExternalReferenceList"), 1, c)

\* Two disorders with one in-set code: the first has a definition, the last
\* has none, and the definition map holds "".
C10_Witness ==
    /\ AllParsed
    /\ \E c \in CodeSet :
          LET doc == FeedDisorders("SummaryInformationList")
          IN  /\ Cardinality(IndicesOf(doc, c)) = 2
              /\ \E n \in IndicesOf(doc, c) : DisorderDefinition(doc[n]) # ""
              /\ defs[c] = ""

====
